---- MODULE Spec2Model ----
(***************************************************************************)
(* Crusty-Crawler: the credential store (auth.rs), the server lifecycle    *)
(* (main.rs / cli.rs), the HTTP token gate (main.rs) and the hardware      *)
(* telemetry cache (hardware_statistics.rs).                               *)
(*                                                                         *)
(* Every critical section of the code (a lock()..drop of the ServerState   *)
(* mutex) is one action.  A critical section that contains a slow call     *)
(* (the hardware query) is split in two actions and keeps state_lock held  *)
(* in between.                                                             *)
(***************************************************************************)
EXTENDS Integers, Sequences, FiniteSets, TLC

(***************************************************************************)
(* Bounds of the model.                                                    *)
(***************************************************************************)
MaxStarts == 2      \* listener threads spawned in one run
MaxHandlers == 2    \* concurrent request handlers
MaxTime == 93       \* seconds of monotonic clock explored

(***************************************************************************)
(* Input alphabets.  "éé" has two characters and four bytes.                *)
(***************************************************************************)
Pad72 == "0123456789abcdefghijklmnopqrstuvwxyz0123456789abcdefghijklmnopqrstuvwxyz"
LongA == Pad72 \o "A"
LongB == Pad72 \o "B"

Usernames == {"al", "éé", "alice"}
Passwords == {"short", "password1", LongA, LongB}
RegisterPasswords == {"short", "password1", LongA}
Emails == {"a@x.com", "nomail"}
Tokens == {"tok", "tok12345", "tok67890"}
Salts == {"saltA", "saltB"}
Timestamps == {"2025-07-01T00:00:00+00:00"}
WriteOutcomes == {"ok", "fail_untouched", "fail_truncated"}

\* str::len: the length in bytes of the UTF-8 encoding (Len counts characters)
TwoByteChars == {"é"}
len(s) == Len(s) + Cardinality({i \in 1..Len(s) : SubSeq(s, i, i) \in TwoByteChars})

\* Option<T>: None is the empty sequence, Some(x) the sequence <<x>>
None == <<>>
Some(x) == <<x>>
Unwrap(opt) == opt[1]

\* what a path of the file system holds
Absent == [kind |-> "absent"]
Corrupt == [kind |-> "corrupt"]
PrimaryPath == "crusty_auth.json"
FallbackPath == "crust_auth.json"
Paths == {PrimaryPath, FallbackPath}

VARIABLES
    users,            \* AuthConfig.users : username -> User
    smtp_config,      \* AuthConfig.smtp_config : None or SmtpConfig
    config_path,      \* AuthManager.config_path
    disk,             \* path -> Absent | Corrupt | file content
    supplied,         \* history: username -> password given to the accepted register call
    call,             \* the last credential-store call: arguments and outcome
    is_running,       \* ServerState.is_running
    port,             \* ServerState.port
    shutdown_sender,  \* ServerState.shutdown_sender : None or the generation of the channel
    state_lock,       \* holder of the ServerState mutex, None when free
    frontend,         \* "gui" (MainState) or "cli"
    ui,               \* position and locals of the frontend thread
    listener,         \* generation -> position of the spawned listener thread
    chan,             \* generation -> state of its oneshot channel
    hw,               \* HardwareMonitorState
    now,              \* monotonic clock (seconds)
    handler,          \* request handler -> position and locals
    resp,             \* the last HTTP response sent, with the request it answers
    queries,          \* history: number of telemetry queries issued, start of the last
    locks             \* the three mutexes' owners and each thread's way through its section

authVars == <<users, smtp_config, config_path, disk, supplied, call>>
lifeVars == <<is_running, port, shutdown_sender, frontend, ui, listener, chan, locks>>
hwVars == <<hw, now, queries>>
vars == <<users, smtp_config, config_path, disk, supplied, call,
          is_running, port, shutdown_sender, state_lock, frontend, ui,
          listener, chan, hw, now, handler, resp, queries, locks>>

(***************************************************************************)
(* bcrypt (auth.rs:2).  hash() and verify() feed at most 72 bytes of the   *)
(* password to the cipher; the digest depends on the salt and on those     *)
(* bytes only.  The digest is kept symbolic (the pair it is computed from).*)
(***************************************************************************)
BCRYPT_MAX_BYTES == 72

BcryptInput(password) ==
    IF len(password) > BCRYPT_MAX_BYTES
    THEN SubSeq(password, 1, BCRYPT_MAX_BYTES)
    ELSE password

hash(password, salt) ==
    [salt |-> salt, digest |-> <<salt, BcryptInput(password)>>]

verify(password, password_hash) ==
    hash(password, password_hash.salt) = password_hash

(***************************************************************************)
(* Persistence: save_config writes the pretty-printed JSON of the whole    *)
(* AuthConfig over the file; AuthManager::new parses it back.              *)
(***************************************************************************)
JsonNull == [json |-> "null"]

\* the orders in which a HashMap with the keys of us can iterate: the order
\* depends on the map's RandomState and is any permutation of the keys
Orders(us) ==
    {o \in [1..Cardinality(DOMAIN us) -> DOMAIN us] :
        \A k \in DOMAIN us : \E i \in DOMAIN o : o[i] = k}

\* serde_json::to_string_pretty(&self.config) (auth.rs:67): the "users"
\* object lists one member per user in the map's iteration order
ToJson(us, smtp, order) ==
    [kind |-> "json",
     entries |-> [i \in DOMAIN order |-> [key |-> order[i], value |-> us[order[i]]]],
     smtp_config |-> IF smtp = None THEN JsonNull ELSE Unwrap(smtp)]

\* serde_json::from_str::<AuthConfig> (auth.rs:49): the members are inserted
\* into a new map
FromJsonUsers(content) ==
    [k \in {content.entries[i].key : i \in DOMAIN content.entries} |->
        content.entries[CHOOSE i \in DOMAIN content.entries :
                            content.entries[i].key = k].value]

\* mutant: the notifier configuration is not read back
FromJsonSmtp_Dropped(content) == None

FromJsonSmtp(content) ==
    IF content.smtp_config = JsonNull THEN None ELSE Some(content.smtp_config)

\* fs::write: on success the file holds the new content; a failed write
\* leaves the old file or a truncated (unparseable) one.
WriteFile(d, path, content, outcome) ==
    CASE outcome = "ok" -> [d EXCEPT ![path] = content]
      [] outcome = "fail_untouched" -> d
      [] outcome = "fail_truncated" -> [d EXCEPT ![path] = Corrupt]

NoUsers == [k \in {} |-> ""]

(***************************************************************************)
(* auth.rs: AuthManager                                                    *)
(***************************************************************************)
ERR_USERNAME_EXISTS == "Username already exists"
ERR_USERNAME_SHORT == "Username must be at least 3 characters"
ERR_PASSWORD_SHORT == "Password must be at least 8 characters"
ERR_TOKEN_SHORT == "Access token must be at least 8 characters"
ERR_TOKEN_IN_USE == "Access token already in use"
ERR_INVALID_PASSWORD == "Invalid password"
ERR_USER_NOT_FOUND == "User not found"
ERR_INVALID_TOKEN == "Invalid access token"
ERR_IO == "io error"
OK == "Ok"

\* mutant: the scan for an access token already in use is missing
TokenInUse_NoScan(us, access_token) == FALSE

\* register_user, the `for user in users.values()` scan (auth.rs:96-100)
TokenInUse(us, access_token) ==
    \E k \in DOMAIN us : us[k].access_token = access_token

\* mutant: a username already stored is accepted again
RegisterCheck_Overwrites(us, username, password, access_token) ==
    IF len(username) < 3 THEN ERR_USERNAME_SHORT
    ELSE IF len(password) < 8 THEN ERR_PASSWORD_SHORT
    ELSE IF len(access_token) < 8 THEN ERR_TOKEN_SHORT
    ELSE IF TokenInUse(us, access_token) THEN ERR_TOKEN_IN_USE
    ELSE OK

\* register_user, the chain of early returns (auth.rs:79-100)
RegisterCheck(us, username, password, access_token) ==
    IF username \in DOMAIN us THEN ERR_USERNAME_EXISTS
    ELSE IF len(username) < 3 THEN ERR_USERNAME_SHORT
    ELSE IF len(password) < 8 THEN ERR_PASSWORD_SHORT
    ELSE IF len(access_token) < 8 THEN ERR_TOKEN_SHORT
    ELSE IF TokenInUse(us, access_token) THEN ERR_TOKEN_IN_USE
    ELSE OK

\* the User built at auth.rs:102-111
NewUser(username, password, email, access_token, salt, created_at) ==
    [username |-> username,
     email |-> email,
     password_hash |-> hash(password, salt),
     access_token |-> access_token,
     created_at |-> created_at]

\* mutant: the entry is not inserted
Insert_Dropped(us, key, value) == us

\* HashMap::insert (auth.rs:113)
Insert(us, key, value) ==
    [k \in DOMAIN us \cup {key} |-> IF k = key THEN value ELSE us[k]]

\* mutant: the notifier configuration is not written
SaveConfig_NoSmtp(us, smtp, outcome, order) ==
    WriteFile(disk, config_path, ToJson(us, None, order), outcome)

\* save_config (auth.rs:66-70) of the given in-memory configuration
SaveConfig(us, smtp, outcome, order) ==
    WriteFile(disk, config_path, ToJson(us, smtp, order), outcome)

\* the record kept of a call
Call(op, username, password, email, token, io, result, value) ==
    [op |-> op, username |-> username, password |-> password, email |-> email,
     token |-> token, io |-> io, result |-> result, value |-> value,
     sent |-> << >>]

\* register_user (auth.rs:72-117).  salt is the salt bcrypt draws, created_at
\* the clock's reading and outcome what the file write does: the three are
\* consulted only once the checks have passed.
RegisterUser(username, password, email, access_token, salt, created_at, outcome) ==
    LET err == RegisterCheck(users, username, password, access_token)
        inserted == Insert(users, username,
                           NewUser(username, password, email, access_token,
                                   salt, created_at))
    IN  /\ state_lock = None
        /\ IF err # OK
           THEN /\ call' = Call("register", username, password, email, access_token,
                                "", err, "")
                /\ UNCHANGED <<users, disk, supplied>>
           ELSE /\ users' = inserted
                /\ supplied' = Insert(supplied, username, password)
                /\ \E order \in Orders(inserted) :
                      disk' = SaveConfig(inserted, smtp_config, outcome, order)
                /\ call' = Call("register", username, password, email, access_token,
                                outcome, IF outcome = "ok" THEN OK ELSE ERR_IO, "")
        /\ UNCHANGED <<smtp_config, config_path, state_lock>>
        /\ UNCHANGED lifeVars
        /\ UNCHANGED hwVars
        /\ UNCHANGED <<handler, resp>>

\* authenticate (auth.rs:119-129)
authenticate(us, username, password) ==
    IF username \in DOMAIN us
    THEN IF verify(password, us[username].password_hash)
         THEN [result |-> OK, value |-> us[username].access_token]
         ELSE [result |-> ERR_INVALID_PASSWORD, value |-> ""]
    ELSE [result |-> ERR_USER_NOT_FOUND, value |-> ""]

\* mutant: the scan returns the matching user's token instead of its username
validate_token_ReturnsToken(us, token) ==
    IF \E k \in DOMAIN us : us[k].access_token = token
    THEN {[result |-> OK, value |-> us[k].access_token] :
             k \in {x \in DOMAIN us : us[x].access_token = token}}
    ELSE {[result |-> ERR_INVALID_TOKEN, value |-> ""]}

\* validate_token (auth.rs:131-138): the scan returns at the first match in
\* the HashMap's iteration order, which is unspecified: every match is a
\* possible outcome.
validate_token(us, token) ==
    IF \E k \in DOMAIN us : us[k].access_token = token
    THEN {[result |-> OK, value |-> us[k].username] :
             k \in {x \in DOMAIN us : us[x].access_token = token}}
    ELSE {[result |-> ERR_INVALID_TOKEN, value |-> ""]}

Authenticate(username, password) ==
    /\ state_lock = None
    /\ LET r == authenticate(users, username, password)
       IN  call' = Call("authenticate", username, password, "", "", "", r.result, r.value)
    /\ UNCHANGED <<users, smtp_config, config_path, disk, supplied, state_lock>>
    /\ UNCHANGED lifeVars
    /\ UNCHANGED hwVars
    /\ UNCHANGED <<handler, resp>>

ValidateToken(token) ==
    /\ state_lock = None
    /\ \E r \in validate_token(users, token) :
          call' = Call("validate_token", "", "", "", token, "", r.result, r.value)
    /\ UNCHANGED <<users, smtp_config, config_path, disk, supplied, state_lock>>
    /\ UNCHANGED lifeVars
    /\ UNCHANGED hwVars
    /\ UNCHANGED <<handler, resp>>

\* has_users (auth.rs:182-184)
has_users(us) == DOMAIN us # {}

\* mutant: the test takes the user map out of the store
HasUsers_Drains ==
    /\ state_lock = None
    /\ call' = Call("has_users", "", "", "", "", "", OK,
                    IF has_users(users) THEN "true" ELSE "false")
    /\ users' = NoUsers
    /\ UNCHANGED <<smtp_config, config_path, disk, supplied, state_lock>>
    /\ UNCHANGED lifeVars
    /\ UNCHANGED hwVars
    /\ UNCHANGED <<handler, resp>>

HasUsers ==
    /\ state_lock = None
    /\ call' = Call("has_users", "", "", "", "", "", OK,
                    IF has_users(users) THEN "true" ELSE "false")
    /\ UNCHANGED <<users, smtp_config, config_path, disk, supplied, state_lock>>
    /\ UNCHANGED lifeVars
    /\ UNCHANGED hwVars
    /\ UNCHANGED <<handler, resp>>

\* the notifier configurations a caller hands to configure_smtp
SmtpConfigs ==
    {[server |-> "smtp.x.com", port |-> 587, username |-> "ops", password |-> "pw1",
      use_tls |-> TRUE],
     [server |-> "mail.y.org", port |-> 25, username |-> "ops", password |-> "pw2",
      use_tls |-> FALSE]}

\* mutant: a configuration already set is kept
ConfigureSmtp_KeepsOld(new_config, outcome) ==
    /\ state_lock = None
    /\ smtp_config' = IF smtp_config = None THEN Some(new_config) ELSE smtp_config
    /\ \E order \in Orders(users) :
          disk' = SaveConfig(users, smtp_config', outcome, order)
    /\ call' = Call("configure_smtp", "", "", "", "", outcome,
                    IF outcome = "ok" THEN OK ELSE ERR_IO, "")
    /\ UNCHANGED <<users, config_path, supplied, state_lock>>
    /\ UNCHANGED lifeVars
    /\ UNCHANGED hwVars
    /\ UNCHANGED <<handler, resp>>

\* configure_smtp (auth.rs:176-180)
ConfigureSmtp(new_config, outcome) ==
    /\ state_lock = None
    /\ smtp_config' = Some(new_config)
    /\ \E order \in Orders(users) :
          disk' = SaveConfig(users, Some(new_config), outcome, order)
    /\ call' = Call("configure_smtp", "", "", "", "", outcome,
                    IF outcome = "ok" THEN OK ELSE ERR_IO, "")
    /\ UNCHANGED <<users, config_path, supplied, state_lock>>
    /\ UNCHANGED lifeVars
    /\ UNCHANGED hwVars
    /\ UNCHANGED <<handler, resp>>

ERR_NO_EMAIL == "No user found with that email address"
ERR_NO_SMTP == "Email configuration not set up. Please contact administrator."
PENDING == "not returned"

\* mutant: the message carries the whole user record
RecoveryMessage_WholeUser(user) == user

\* what send_recovery_email prints of the user (auth.rs:155-170)
RecoveryMessage(user) ==
    [to |-> user.email, username |-> user.username, access_token |-> user.access_token]

\* users.values().find(|u| u.email == email): the users find can stop at
Matches(us, email) == {u \in DOMAIN us : us[u].email = email}

\* recover_credentials (auth.rs:140-153) up to the end of the printing in
\* send_recovery_email (auth.rs:155-170); find takes the first match in the
\* HashMap's iteration order, which can be any of the matches
RecoverCredentials(email) ==
    /\ state_lock = None
    /\ IF Matches(users, email) = {}
       THEN call' = Call("recover", "", "", email, "", "", ERR_NO_EMAIL, "")
       ELSE IF smtp_config = None
       THEN call' = Call("recover", "", "", email, "", "", ERR_NO_SMTP, "")
       ELSE \E u \in Matches(users, email) :
               call' = [Call("recover", "", "", email, "", "", PENDING, "")
                           EXCEPT !.sent = <<RecoveryMessage(users[u])>>]
    /\ UNCHANGED <<users, smtp_config, config_path, disk, supplied, state_lock>>
    /\ UNCHANGED lifeVars
    /\ UNCHANGED hwVars
    /\ UNCHANGED <<handler, resp>>

\* send_recovery_email: the sleep is over, Ok(()) is returned (auth.rs:172-173)
SendRecoveryDone ==
    /\ call.op = "recover" /\ call.result = PENDING
    /\ call' = [call EXCEPT !.result = OK]
    /\ UNCHANGED <<users, smtp_config, config_path, disk, supplied, state_lock>>
    /\ UNCHANGED lifeVars
    /\ UNCHANGED hwVars
    /\ UNCHANGED <<handler, resp>>

\* mutant: a missing file is not created
New_NoWrite(d, path) ==
    IF d[path] = Absent
    THEN {[ok |-> TRUE, users |-> NoUsers, smtp |-> None, path |-> path, disk |-> d]}
    ELSE IF d[path] = Corrupt
    THEN {[ok |-> FALSE, users |-> NoUsers, smtp |-> None, path |-> path, disk |-> d]}
    ELSE {[ok |-> TRUE, users |-> FromJsonUsers(d[path]), smtp |-> FromJsonSmtp(d[path]),
           path |-> path, disk |-> d]}

\* AuthManager::new (auth.rs:46-64) on the files d: its possible results
New(d, path) ==
    IF d[path] = Absent
    THEN {[ok |-> o = "ok", users |-> NoUsers, smtp |-> None, path |-> path,
           disk |-> WriteFile(d, path, ToJson(NoUsers, None, <<>>), o)] :
             o \in WriteOutcomes}
    ELSE IF d[path] = Corrupt
    THEN {[ok |-> FALSE, users |-> NoUsers, smtp |-> None, path |-> path, disk |-> d]}
    ELSE {[ok |-> TRUE, users |-> FromJsonUsers(d[path]), smtp |-> FromJsonSmtp(d[path]),
           path |-> path, disk |-> d]}

\* AuthManager::new(first).unwrap_or_else(|_| AuthManager::new(second).unwrap());
\* a result that is not ok is the panic of the unwrap
NewOrElse(d, first, second) ==
    UNION {IF r.ok THEN {r} ELSE New(r.disk, second) : r \in New(d, first)}

\* ServerState::default (main.rs:45-58)
ServerStateDefault(d) == NewOrElse(d, PrimaryPath, FallbackPath)

\* MyApp::default (main.rs:214-248): a manager of its own for has_users,
\* then ServerState::default
MyAppDefault(d) ==
    UNION {IF r.ok THEN ServerStateDefault(r.disk) ELSE {r} :
              r \in NewOrElse(d, PrimaryPath, PrimaryPath)}

\* the process is started again on the files left by the previous run
PANIC == "panicked"
Startups(fe, d) == IF fe = "gui" THEN MyAppDefault(d) ELSE ServerStateDefault(d)

(***************************************************************************)
(* Server lifecycle: MainState::start_server / stop_server (main.rs) and   *)
(* start_server / stop_server / change_port (cli.rs).  The frontend is a   *)
(* single thread; every listener is a thread of its own.                   *)
(***************************************************************************)
Generations == 1..MaxStarts
PortInputs == {-1, 80, 8080, 65536}     \* what the port text spells; -1: not a number
DEFAULT_PORT == 3000
U16_MAX == 65535
MIN_CLI_PORT == 1024

\* str::parse::<u16>
ParsePort(input) == IF input >= 0 /\ input <= U16_MAX THEN Some(input) ELSE None

Spawned == {g \in Generations : listener[g].pc # "unborn"}
NextGen == Cardinality(Spawned) + 1
Bound == {g \in Generations : listener[g].pc = "serving"}

\* dropping an Option<Sender>: a Sender dropped unsent closes its channel
DropSender(c, sender) ==
    IF sender # None /\ c[Unwrap(sender)] = "open"
    THEN [c EXCEPT ![Unwrap(sender)] = "dropped"]
    ELSE c

\* mutant: the signal is never delivered
Send_Lost(c, sender) == c

\* Sender::send
Send(c, sender) ==
    IF sender # None /\ c[Unwrap(sender)] = "open"
    THEN [c EXCEPT ![Unwrap(sender)] = "sent"]
    ELSE c

UiAt(pc, arg, msg) == [pc |-> pc, arg |-> arg, msg |-> msg]

\* std::thread::spawn of the listener closure with its captured port
Spawn(l, g, p) == [l EXCEPT ![g] = [pc |-> "spawned", port |-> p]]

lifeFrame ==
    /\ UNCHANGED <<users, smtp_config, config_path, disk, supplied, call>>
    /\ UNCHANGED <<state_lock, frontend, hw, now, handler, resp, queries, locks>>

\* The egui frame reads is_running to offer Start or Stop (main.rs:679-705)
GuiFrame ==
    /\ frontend = "gui" /\ ui.pc = "idle" /\ state_lock = None
    /\ ui' = UiAt(IF is_running THEN "frame_running" ELSE "frame_stopped", None, ui.msg)
    /\ UNCHANGED <<is_running, port, shutdown_sender, listener, chan>>
    /\ lifeFrame

\* the frame ends without a click on the offered button
GuiNoClick ==
    /\ frontend = "gui" /\ ui.pc \in {"frame_running", "frame_stopped"}
    /\ ui' = UiAt("idle", None, ui.msg)
    /\ UNCHANGED <<is_running, port, shutdown_sender, listener, chan>>
    /\ lifeFrame

\* MainState::start_server, main.rs:110-126
GuiStartCheck(input) ==
    /\ frontend = "gui" /\ ui.pc = "frame_stopped" /\ state_lock = None
    /\ ui' = IF ParsePort(input) = None THEN UiAt("idle", None, "invalid port")
             ELSE IF is_running THEN UiAt("idle", None, "already running")
             ELSE UiAt("start_set", ParsePort(input), ui.msg)
    /\ UNCHANGED <<is_running, port, shutdown_sender, listener, chan>>
    /\ lifeFrame

\* MainState::start_server, main.rs:129-181
GuiStartSet ==
    /\ frontend = "gui" /\ ui.pc = "start_set" /\ state_lock = None
    /\ NextGen \in Generations
    /\ is_running' = TRUE
    /\ port' = Unwrap(ui.arg)
    /\ shutdown_sender' = Some(NextGen)
    /\ chan' = [DropSender(chan, shutdown_sender) EXCEPT ![NextGen] = "open"]
    /\ listener' = Spawn(listener, NextGen, Unwrap(ui.arg))
    /\ ui' = UiAt("idle", None, "started")
    /\ lifeFrame

\* MainState::stop_server, main.rs:185-188
GuiStopTake ==
    /\ frontend = "gui" /\ ui.pc = "frame_running" /\ state_lock = None
    /\ shutdown_sender' = None
    /\ ui' = UiAt("stop_send", shutdown_sender, ui.msg)
    /\ UNCHANGED <<is_running, port, listener, chan>>
    /\ lifeFrame

\* MainState::stop_server, main.rs:190-196
GuiStopSend ==
    /\ frontend = "gui" /\ ui.pc = "stop_send"
    /\ chan' = Send(chan, ui.arg)
    /\ ui' = UiAt("stop_mark", None,
                  IF ui.arg # None THEN "shutdown initiated" ELSE "not running")
    /\ UNCHANGED <<is_running, port, shutdown_sender, listener>>
    /\ lifeFrame

\* MainState::stop_server, main.rs:199-202
GuiStopMark ==
    /\ frontend = "gui" /\ ui.pc = "stop_mark" /\ state_lock = None
    /\ is_running' = FALSE
    /\ ui' = UiAt("idle", None, ui.msg)
    /\ UNCHANGED <<port, shutdown_sender, listener, chan>>
    /\ lifeFrame

\* mutant: start does not test is_running
CliStartCheck_NoRunningTest ==
    /\ frontend = "cli" /\ ui.pc = "idle" /\ state_lock = None
    /\ ui' = UiAt("start_set", Some(port), ui.msg)
    /\ UNCHANGED <<is_running, port, shutdown_sender, listener, chan>>
    /\ lifeFrame

\* cli.rs start_server, cli.rs:164-177 (two reads of the state by the only
\* thread that starts servers or writes port)
CliStartCheck ==
    /\ frontend = "cli" /\ ui.pc = "idle" /\ state_lock = None
    /\ ui' = IF is_running THEN UiAt("idle", None, "already running")
             ELSE UiAt("start_set", Some(port), ui.msg)
    /\ UNCHANGED <<is_running, port, shutdown_sender, listener, chan>>
    /\ lifeFrame

\* cli.rs start_server, cli.rs:181-228
CliStartSet ==
    /\ frontend = "cli" /\ ui.pc = "start_set" /\ state_lock = None
    /\ NextGen \in Generations
    /\ is_running' = TRUE
    /\ shutdown_sender' = Some(NextGen)
    /\ chan' = [DropSender(chan, shutdown_sender) EXCEPT ![NextGen] = "open"]
    /\ listener' = Spawn(listener, NextGen, Unwrap(ui.arg))
    /\ ui' = UiAt("idle", None, "started")
    /\ UNCHANGED port
    /\ lifeFrame

\* cli.rs stop_server, cli.rs:232-243
CliStopTake ==
    /\ frontend = "cli" /\ ui.pc = "idle" /\ state_lock = None
    /\ shutdown_sender' = None
    /\ is_running' = FALSE
    /\ IF is_running
       THEN /\ ui' = UiAt("stop_send", shutdown_sender, ui.msg)
            /\ UNCHANGED chan
       ELSE /\ ui' = UiAt("idle", None, "not running")
            /\ chan' = DropSender(chan, shutdown_sender)
    /\ UNCHANGED <<port, listener>>
    /\ lifeFrame

\* cli.rs stop_server, cli.rs:245-253
CliStopSend ==
    /\ frontend = "cli" /\ ui.pc = "stop_send"
    /\ chan' = Send(chan, ui.arg)
    /\ ui' = UiAt("idle", None, "stopped")
    /\ UNCHANGED <<is_running, port, shutdown_sender, listener>>
    /\ lifeFrame

\* mutant: change_port does not test is_running
CliChangePort_WhileRunning(input) ==
    /\ frontend = "cli" /\ ui.pc = "idle" /\ state_lock = None
    /\ IF ParsePort(input) # None /\ Unwrap(ParsePort(input)) >= MIN_CLI_PORT
       THEN /\ port' = Unwrap(ParsePort(input))
            /\ ui' = UiAt("idle", None, "port changed")
       ELSE /\ ui' = UiAt("idle", None, "invalid port")
            /\ UNCHANGED port
    /\ UNCHANGED <<is_running, shutdown_sender, listener, chan>>
    /\ lifeFrame

\* cli.rs change_port, cli.rs:275-303
CliChangePort(input) ==
    /\ frontend = "cli" /\ ui.pc = "idle" /\ state_lock = None
    /\ IF is_running
       THEN /\ ui' = UiAt("idle", None, "stop the server first")
            /\ UNCHANGED port
       ELSE IF ParsePort(input) # None /\ Unwrap(ParsePort(input)) >= MIN_CLI_PORT
       THEN /\ port' = Unwrap(ParsePort(input))
            /\ ui' = UiAt("idle", None, "port changed")
       ELSE /\ ui' = UiAt("idle", None, "invalid port")
            /\ UNCHANGED port
    /\ UNCHANGED <<is_running, shutdown_sender, listener, chan>>
    /\ lifeFrame

\* TcpListener::bind in the listener thread (main.rs:149, cli.rs:197): fails
\* when the address is in use, here or by another process (env_ok = FALSE)
CanBind(g, env_ok) ==
    env_ok /\ \A o \in Bound : listener[o].port # listener[g].port

ListenerBind(g, env_ok) ==
    /\ listener[g].pc = "spawned"
    /\ listener' = [listener EXCEPT
                       ![g].pc = IF CanBind(g, env_ok) THEN "serving" ELSE "bind_failed"]
    /\ UNCHANGED <<is_running, port, shutdown_sender, ui, chan>>
    /\ lifeFrame

\* select! on the serve future and the oneshot receiver (main.rs:157-164,
\* cli.rs:206-213): the receiver resolves once the sender has sent or has
\* been dropped; the listener socket is closed on leaving the arm.
ListenerShutdown(g) ==
    /\ listener[g].pc = "serving"
    /\ chan[g] \in {"sent", "dropped"}
    /\ listener' = [listener EXCEPT ![g].pc = "cleanup"]
    /\ UNCHANGED <<is_running, port, shutdown_sender, ui, chan>>
    /\ lifeFrame

\* the Err arm of the bind (main.rs:166-170, cli.rs:215-219)
ListenerBindFailed(g) ==
    /\ listener[g].pc = "bind_failed" /\ state_lock = None
    /\ is_running' = FALSE
    /\ listener' = [listener EXCEPT ![g].pc = "cleanup"]
    /\ UNCHANGED <<port, shutdown_sender, ui, chan>>
    /\ lifeFrame

\* mutant: the last critical section leaves the sender in place
ListenerCleanup_KeepsSender(g) ==
    /\ listener[g].pc = "cleanup" /\ state_lock = None
    /\ is_running' = FALSE
    /\ listener' = [listener EXCEPT ![g].pc = "done"]
    /\ UNCHANGED <<port, ui, shutdown_sender, chan>>
    /\ lifeFrame

\* the thread's last critical section (main.rs:173-175, cli.rs:222-224)
ListenerCleanup(g) ==
    /\ listener[g].pc = "cleanup" /\ state_lock = None
    /\ is_running' = FALSE
    /\ shutdown_sender' = None
    /\ chan' = DropSender(chan, shutdown_sender)
    /\ listener' = [listener EXCEPT ![g].pc = "done"]
    /\ UNCHANGED <<port, ui>>
    /\ lifeFrame

(***************************************************************************)
(* hardware_statistics.rs: the telemetry cache                             *)
(***************************************************************************)
TTL_SECS == 60
FORCE_AGE_SECS == 61
TickSteps == {30, 31}

\* what HardwareInfo::query() can return
HwOutcomes ==
    {[ok |-> TRUE, power |-> "Power State: A", thermal |-> "Max Temperature: A",
      suggestions |-> <<"cool A">>],
     [ok |-> FALSE, error |-> "E"]}

\* HardwareMonitorState::default (hardware_statistics.rs:10-19) built at time t
DefaultHardwareState(t) ==
    [last_update |-> t - FORCE_AGE_SECS,
     power_info |-> None,
     thermal_info |-> None,
     optimization_suggestions |-> <<>>]

\* mutant: a failed query does not stamp last_update
update_hardware_info_NoStampOnError(state, outcome, t) ==
    IF outcome.ok
    THEN [last_update |-> t,
          power_info |-> Some(outcome.power),
          thermal_info |-> Some(outcome.thermal),
          optimization_suggestions |-> outcome.suggestions]
    ELSE [state EXCEPT
             !.power_info = Some("Error querying hardware: " \o outcome.error),
             !.thermal_info = Some("Error querying hardware: " \o outcome.error)]

\* mutant: a failed query records its error in the power summary only
update_hardware_info_ErrorOnlyPower(state, outcome, t) ==
    IF outcome.ok
    THEN [last_update |-> t,
          power_info |-> Some(outcome.power),
          thermal_info |-> Some(outcome.thermal),
          optimization_suggestions |-> outcome.suggestions]
    ELSE [state EXCEPT
             !.power_info = Some("Error querying hardware: " \o outcome.error),
             !.last_update = t]

\* update_hardware_info (hardware_statistics.rs:21-81) finishing at time t
update_hardware_info(state, outcome, t) ==
    IF outcome.ok
    THEN [last_update |-> t,
          power_info |-> Some(outcome.power),
          thermal_info |-> Some(outcome.thermal),
          optimization_suggestions |-> outcome.suggestions]
    ELSE [state EXCEPT
             !.power_info = Some("Error querying hardware: " \o outcome.error),
             !.thermal_info = Some("Error querying hardware: " \o outcome.error),
             !.last_update = t]

\* mutant: a snapshot exactly TTL_SECS old counts as stale
Stale_AtTtl(state, t) == t - state.last_update >= TTL_SECS

\* the staleness test of get_hardware_status (hardware_statistics.rs:90)
Stale(state, t) == t - state.last_update > TTL_SECS

(***************************************************************************)
(* main.rs: the request handlers                                           *)
(***************************************************************************)
Handlers == 1..MaxHandlers
RequestTokens == {None} \cup {Some(t) : t \in Tokens}

Response(route, token, code, page, body) ==
    [route |-> route, token |-> token, code |-> code, page |-> page, body |-> body]

NoResp == Response("", None, 0, "none", <<>>)
IdleHandler == [pc |-> "idle", token |-> None, url_token |-> ""]

\* mutant: any token that is present is accepted
TokenAccepted_AnyPresent(us, token) == token # None

\* the is_valid block of status_handler (main.rs:273-282)
TokenAccepted(us, token) ==
    /\ token # None
    /\ \E r \in validate_token(us, Unwrap(token)) : r.result = OK

\* mutant: the handler saves the configuration again
httpFrame_Saves ==
    /\ \E order \in Orders(users) : disk' = SaveConfig(users, smtp_config, "ok", order)
    /\ UNCHANGED <<users, smtp_config, config_path, supplied, call>>
    /\ UNCHANGED lifeVars

httpFrame ==
    /\ UNCHANGED <<users, smtp_config, config_path, disk, supplied, call>>
    /\ UNCHANGED lifeVars

\* status_handler (main.rs:268-289) up to the decision
StatusRequest(h, token) ==
    /\ handler[h].pc = "idle" /\ state_lock = None
    /\ IF TokenAccepted(users, token)
       THEN /\ handler' = [handler EXCEPT ![h] =
                               [pc |-> "status", token |-> token, url_token |-> ""]]
            /\ UNCHANGED resp
       ELSE /\ resp' = Response("/api/status", token, 401, "none", <<>>)
            /\ UNCHANGED handler
    /\ UNCHANGED <<state_lock, hw, now, queries>>
    /\ httpFrame

\* status (main.rs:344-359): the token of users.values().next()
FirstUserTokens(us) ==
    IF DOMAIN us = {} THEN {""} ELSE {us[k].access_token : k \in DOMAIN us}

StatusReadToken(h) ==
    /\ handler[h].pc = "status" /\ state_lock = None
    /\ \E t \in FirstUserTokens(users) :
          handler' = [handler EXCEPT ![h].pc = "hw_check", ![h].url_token = t]
    /\ UNCHANGED <<state_lock, hw, now, resp, queries>>
    /\ httpFrame

\* get_hardware_status, first block (hardware_statistics.rs:88-93): the
\* ServerState lock is taken and, when the snapshot is stale, kept while
\* HardwareInfo::query() runs
HwCheck(h) ==
    /\ handler[h].pc = "hw_check" /\ state_lock = None
    /\ IF Stale(hw, now)
       THEN /\ state_lock' = Some(h)
            /\ handler' = [handler EXCEPT ![h].pc = "hw_query"]
            /\ queries' = [count |-> queries.count + 1, last_start |-> Some(now)]
       ELSE /\ handler' = [handler EXCEPT ![h].pc = "hw_read"]
            /\ UNCHANGED <<state_lock, queries>>
    /\ UNCHANGED <<hw, now, resp>>
    /\ httpFrame

\* the query returns; update_hardware_info stores and stamps; lock released
HwQueryDone(h, outcome) ==
    /\ handler[h].pc = "hw_query" /\ state_lock = Some(h)
    /\ hw' = update_hardware_info(hw, outcome, now)
    /\ state_lock' = None
    /\ handler' = [handler EXCEPT ![h].pc = "hw_read"]
    /\ UNCHANGED <<now, resp, queries>>
    /\ httpFrame

\* what a collector (network_info, network_traffic, check_components,
\* check_disks) can hand to status: Ok with its lines or Err
CollectorOutcomes ==
    {[ok |-> TRUE, items |-> <<"item">>], [ok |-> TRUE, items |-> << >>],
     [ok |-> FALSE, error |-> "E"]}

Collectors == {"network_info", "network_traffic", "components", "disks"}
Collected == [Collectors -> CollectorOutcomes]

\* the collectors as they are: none of them has an Err path (network.rs:8-65,
\* components.rs:3-25, disks.rs:3-14)
CollectedOk == [k \in Collectors |-> [ok |-> TRUE, items |-> <<"item">>]]

Section(name, lines) == [name |-> name, lines |-> lines]

\* status, main.rs:360-371
SystemSection == Section("system", <<"System name: ", "Memory in Use: ", "CPU usage: ">>)

\* get_hardware_status, second block (hardware_statistics.rs:96-120)
HardwareSection(state) ==
    Section("hardware",
        <<"=== Power Information ===",
          IF state.power_info # None THEN Unwrap(state.power_info)
                                     ELSE "Power info not available",
          "=== Thermal Information ===",
          IF state.thermal_info # None THEN Unwrap(state.thermal_info)
                                       ELSE "Thermal info not available">>
        \o (IF state.optimization_suggestions # << >>
            THEN <<"=== Optimization Suggestions ===">> \o state.optimization_suggestions
            ELSE << >>))

\* status, main.rs:373-384 and 386-397
NetworkSection(name, header, failure, o) ==
    IF o.ok THEN Section(name, <<header>> \o o.items)
            ELSE Section(name, <<failure \o o.error>>)

\* status, main.rs:399-412 and 414-427
ListSection(name, header, none, failure, o) ==
    IF o.ok THEN Section(name, <<header>> \o (IF o.items = << >> THEN <<none>> ELSE << >>)
                                         \o o.items)
            ELSE Section(name, <<failure \o o.error>>)

\* status, main.rs:428-431
AccessSection(token) ==
    Section("access", <<"Access URL: http://localhost:3000/?token=" \o token>>)

\* mutant: the first failed collector ends the report
status_AbortsOnError(state, c, token) ==
    LET full == <<SystemSection,
                  HardwareSection(state),
                  NetworkSection("network_info", "Network Statistics (Total):",
                                 "Error getting network stats: ", c["network_info"]),
                  NetworkSection("network_traffic", "Current Network Traffic:",
                                 "Error getting network traffic: ", c["network_traffic"]),
                  ListSection("components", "Components:", "No Components Found",
                              "Error checking components: ", c["components"]),
                  ListSection("disks", "Disks:", "No Disks Found",
                              "Error checking disks: ", c["disks"]),
                  AccessSection(token)>>
        failed == {i \in 3..6 : ~c[full[i].name].ok}
    IN  IF failed = {} THEN full
        ELSE SubSeq(full, 1, CHOOSE i \in failed : \A j \in failed : i <= j)

\* status (main.rs:344-433): the report, section by section
status(state, c, token) ==
    <<SystemSection,
      HardwareSection(state),
      NetworkSection("network_info", "Network Statistics (Total):",
                     "Error getting network stats: ", c["network_info"]),
      NetworkSection("network_traffic", "Current Network Traffic:",
                     "Error getting network traffic: ", c["network_traffic"]),
      ListSection("components", "Components:", "No Components Found",
                  "Error checking components: ", c["components"]),
      ListSection("disks", "Disks:", "No Disks Found",
                  "Error checking disks: ", c["disks"]),
      AccessSection(token)>>

\* get_hardware_status, second block (hardware_statistics.rs:96-120), and
\* the rest of status (main.rs:373-432) with the collectors returning c:
\* 200 with the report (collected: history, what the collectors returned)
StatusRespondWith(h, c) ==
    /\ handler[h].pc = "hw_read" /\ state_lock = None
    /\ resp' = Response("/api/status", handler[h].token, 200, "report",
                        [power_info |-> hw.power_info,
                         thermal_info |-> hw.thermal_info,
                         suggestions |-> hw.optimization_suggestions,
                         url_token |-> handler[h].url_token,
                         collected |-> c,
                         report |-> status(hw, c, handler[h].url_token)])
    /\ handler' = [handler EXCEPT ![h] = IdleHandler]
    /\ UNCHANGED <<state_lock, hw, now, queries>>
    /\ httpFrame

StatusRespond(h) == StatusRespondWith(h, CollectedOk)

\* mutant: an unknown token gets the login page instead of 401
IndexResponse_LoginOnUnknown(us, p, token) ==
    IF token # None /\ \E k \in DOMAIN us : us[k].access_token = Unwrap(token)
    THEN Response("/", token, 200, "shell", [token |-> Unwrap(token), port |-> p])
    ELSE Response("/", token, 200, "login", <<>>)

\* index_handler (main.rs:291-341)
IndexResponse(us, p, token) ==
    IF token # None
    THEN IF \E r \in validate_token(us, Unwrap(token)) : r.result = OK
         THEN Response("/", token, 200, "shell", [token |-> Unwrap(token), port |-> p])
         ELSE Response("/", token, 401, "none", <<>>)
    ELSE Response("/", token, 200, "login", <<>>)

IndexRequest(h, token) ==
    /\ handler[h].pc = "idle" /\ state_lock = None
    /\ resp' = IndexResponse(users, port, token)
    /\ UNCHANGED <<state_lock, hw, now, handler, queries>>
    /\ httpFrame

\* the monotonic clock advances
Tick(d) ==
    /\ now + d <= MaxTime
    /\ now' = now + d
    /\ UNCHANGED <<state_lock, hw, handler, resp, queries>>
    /\ httpFrame

(***************************************************************************)
(* The lock protocol: every critical section of the program as the         *)
(* sequence of lock and unlock operations its thread performs on the       *)
(* ServerState mutex ("state") and on the two mutexes inside ServerState,  *)
(* auth_manager ("auth") and hardware_state ("hw") (main.rs:37-43).  A     *)
(* guard is released where it goes out of scope; a temporary guard at the  *)
(* end of its statement or of the if condition it is created in.           *)
(***************************************************************************)
Mutexes == {"state", "auth", "hw"}

Threads ==
    {[kind |-> "frontend", id |-> 0]}
        \cup {[kind |-> "handler", id |-> h] : h \in Handlers}
        \cup {[kind |-> "listener", id |-> g] : g \in Generations}

Lock(m) == [op |-> "lock", m |-> m]
Unlock(m) == [op |-> "unlock", m |-> m]

\* reads and writes of is_running / port / shutdown_sender (main.rs:121, 133,
\* 168, 173, 186, 200, 680; cli.rs:165, 175, 187, 217, 222, 233, 258, 277, 294)
StateSection == <<Lock("state"), Unlock("state")>>

\* calls on the AuthManager (main.rs:274-275, 295-296, 348-351, 523-524,
\* 573-574, 607-608, 869-870, 944-945; cli.rs:14-15, 108-109, 349-350, 365-366)
AuthSection == <<Lock("state"), Lock("auth"), Unlock("auth"), Unlock("state")>>

\* get_hardware_status, first block (hardware_statistics.rs:88-93): the guard
\* of the staleness test is a temporary of the if condition; when stale the
\* mutex is locked again for update_hardware_info
HwRefreshSection(stale) ==
    <<Lock("state"), Lock("hw"), Unlock("hw")>>
        \o (IF stale THEN <<Lock("hw"), Unlock("hw")>> ELSE << >>)
        \o <<Unlock("state")>>

\* mutant: the hardware mutex is taken before the ServerState mutex
HwReadSection_HwFirst == <<Lock("hw"), Lock("state"), Unlock("state"), Unlock("hw")>>

\* get_hardware_status, second block (hardware_statistics.rs:96-120) and the
\* GUI's read of last_update (main.rs:739-744)
HwReadSection == <<Lock("state"), Lock("hw"), Unlock("hw"), Unlock("state")>>

\* the critical sections each kind of thread runs
SectionsOf(t) ==
    CASE t.kind = "frontend" ->
            {StateSection, AuthSection} \cup (IF frontend = "gui" THEN {HwReadSection} ELSE {})
      [] t.kind = "handler" ->
            {AuthSection, HwRefreshSection(TRUE), HwRefreshSection(FALSE), HwReadSection}
      [] t.kind = "listener" -> {StateSection}

NoLocks ==
    [owner |-> [m \in Mutexes |-> None],
     todo |-> [t \in Threads |-> << >>]]

lockFrame ==
    /\ UNCHANGED <<users, smtp_config, config_path, disk, supplied, call>>
    /\ UNCHANGED <<is_running, port, shutdown_sender, state_lock, frontend, ui, listener, chan>>
    /\ UNCHANGED <<hw, now, handler, resp, queries>>

\* a thread arrives at one of its critical sections
Enter(t, section) ==
    /\ locks.todo[t] = << >>
    /\ section \in SectionsOf(t)
    /\ locks' = [locks EXCEPT !.todo[t] = section]
    /\ lockFrame

\* Mutex::lock returns once the mutex is free
Acquire(t) ==
    /\ locks.todo[t] # << >>
    /\ Head(locks.todo[t]).op = "lock"
    /\ locks.owner[Head(locks.todo[t]).m] = None
    /\ locks' = [locks EXCEPT !.owner[Head(locks.todo[t]).m] = Some(t),
                              !.todo[t] = Tail(locks.todo[t])]
    /\ lockFrame

\* the guard is dropped
Release(t) ==
    /\ locks.todo[t] # << >>
    /\ Head(locks.todo[t]).op = "unlock"
    /\ locks' = [locks EXCEPT !.owner[Head(locks.todo[t]).m] = None,
                              !.todo[t] = Tail(locks.todo[t])]
    /\ lockFrame

(***************************************************************************)
(* Initial state: a first run (no configuration file), after               *)
(* ServerState::default (main.rs:45-58) has built the AuthManager          *)
(* (auth.rs:46-64: the empty store is written to the file).                *)
(***************************************************************************)
Frontends == {"gui", "cli"}

InitWith(fe) ==
    /\ users = NoUsers
    /\ smtp_config = None
    /\ config_path = PrimaryPath
    /\ disk = [p \in Paths |-> IF p = PrimaryPath THEN ToJson(NoUsers, None, <<>>) ELSE Absent]
    /\ supplied = NoUsers
    /\ call = Call("new", "", "", "", "", "ok", OK, "")
    /\ is_running = FALSE
    /\ port = DEFAULT_PORT
    /\ shutdown_sender = None
    /\ state_lock = None
    /\ frontend = fe
    /\ ui = UiAt("idle", None, "")
    /\ listener = [g \in Generations |-> [pc |-> "unborn", port |-> 0]]
    /\ chan = [g \in Generations |-> "none"]
    /\ now = 0
    /\ hw = DefaultHardwareState(0)
    /\ handler = [h \in Handlers |-> IdleHandler]
    /\ resp = NoResp
    /\ queries = [count |-> 0, last_start |-> None]
    /\ locks = NoLocks

Init == \E fe \in Frontends : InitWith(fe)

\* The process ends (at any point) and is started again on the files it
\* left: main (main.rs:995-1031) builds MyApp::default or, in CLI mode,
\* run_cli builds ServerState::default (cli.rs:10).  A panic of the unwrap
\* leaves no process.
Restart ==
    /\ \E r \in Startups(frontend, disk) :
          /\ disk' = r.disk
          /\ users' = r.users /\ smtp_config' = r.smtp /\ config_path' = r.path
          /\ call' = Call("new", "", "", "", "", "", IF r.ok THEN OK ELSE PANIC, "")
    /\ is_running' = FALSE /\ port' = DEFAULT_PORT /\ shutdown_sender' = None
    /\ state_lock' = None
    /\ ui' = UiAt("idle", None, "")
    /\ listener' = [g \in Generations |-> [pc |-> "unborn", port |-> 0]]
    /\ chan' = [g \in Generations |-> "none"]
    /\ hw' = DefaultHardwareState(now)
    /\ handler' = [h \in Handlers |-> IdleHandler]
    /\ resp' = NoResp
    /\ queries' = [count |-> 0, last_start |-> None]
    /\ locks' = NoLocks
    /\ UNCHANGED <<frontend, now, supplied>>

Alive == call.result # PANIC

\* the AuthManager's mutex is free: no call on it is in progress
\* (main.rs:607-608, 869-870)
Returned == call.result # PENDING

\* the specifications of the credential store, the handlers and the cache
\* do not involve the frontend thread: they start from the GUI's state
InitGui == InitWith("gui")

(***************************************************************************)
(* Next-state relations                                                    *)
(***************************************************************************)
\* what the environment can answer to a register call: a rejected call
\* returns before it draws a salt, reads the clock or writes the file
RegisterEnv(u, p, t) ==
    IF RegisterCheck(users, u, p, t) = OK
    THEN Salts \X Timestamps \X WriteOutcomes
    ELSE {<<"saltA", "2025-07-01T00:00:00+00:00", "ok">>}

Register ==
    \E u \in Usernames, p \in RegisterPasswords, e \in Emails, t \in Tokens :
        \E env \in RegisterEnv(u, p, t) :
            RegisterUser(u, p, e, t, env[1], env[2], env[3])

AuthenticateCall == \E u \in Usernames, p \in Passwords : Authenticate(u, p)

ValidateTokenCall == \E t \in Tokens : ValidateToken(t)

AuthNext == Register \/ AuthenticateCall \/ ValidateTokenCall

GuiStart == \E input \in PortInputs : GuiStartCheck(input)

ChangePort == \E input \in PortInputs : CliChangePort(input)

Bind == \E g \in Generations, env_ok \in BOOLEAN : ListenerBind(g, env_ok)

Shutdown == \E g \in Generations : ListenerShutdown(g)

BindFailed == \E g \in Generations : ListenerBindFailed(g)

Cleanup == \E g \in Generations : ListenerCleanup(g)

ServerNext ==
    \/ GuiFrame \/ GuiNoClick \/ GuiStart \/ GuiStartSet
    \/ GuiStopTake \/ GuiStopSend \/ GuiStopMark
    \/ CliStartCheck \/ CliStartSet \/ CliStopTake \/ CliStopSend \/ ChangePort
    \/ Bind \/ Shutdown \/ BindFailed \/ Cleanup

\* registrations as the requests see them: who owns which token
RegisterAdmin ==
    \E u \in {"alice", "bob"}, t \in {"tok12345", "tok67890"} :
        RegisterUser(u, "password1", "a@x.com", t, "saltA",
                     "2025-07-01T00:00:00+00:00", "ok")

GetStatus == \E h \in Handlers, token \in RequestTokens : StatusRequest(h, token)

ReadToken == \E h \in Handlers : StatusReadToken(h)

CheckCache == \E h \in Handlers : HwCheck(h)

QueryDone == \E h \in Handlers, outcome \in HwOutcomes : HwQueryDone(h, outcome)

Respond == \E h \in Handlers : StatusRespond(h)

GetIndex == \E h \in Handlers, token \in RequestTokens : IndexRequest(h, token)

Clock == \E d \in TickSteps : Tick(d)

HttpNext ==
    \/ RegisterAdmin \/ GetStatus \/ ReadToken \/ CheckCache \/ QueryDone
    \/ Respond \/ GetIndex

\* the cache as the requests of one registered administrator exercise it
RegisterAlice ==
    RegisterUser("alice", "password1", "a@x.com", "tok12345", "saltA",
                 "2025-07-01T00:00:00+00:00", "ok")

GetStatusAlice == \E h \in Handlers : StatusRequest(h, Some("tok12345"))

CacheNext ==
    \/ RegisterAlice \/ GetStatusAlice \/ ReadToken \/ CheckCache \/ QueryDone
    \/ Respond \/ Clock

\* the store with its file across runs of the process
RegisterStore ==
    /\ Alive /\ Returned
    /\ \E u \in {"alice", "éé"}, e \in Emails, t \in {"tok12345", "tok67890"},
          outcome \in WriteOutcomes :
          RegisterUser(u, "password1", e, t, "saltA",
                       "2025-07-01T00:00:00+00:00", outcome)

\* what the recovery dialog's email field can spell
RecoverEmails == Emails \cup {"A@x.com"}

Recover ==
    /\ Alive /\ Returned
    /\ \E e \in RecoverEmails : RecoverCredentials(e)

RecoverDone == Alive /\ SendRecoveryDone

Configure ==
    /\ Alive /\ Returned
    /\ \E c \in SmtpConfigs, outcome \in WriteOutcomes : ConfigureSmtp(c, outcome)

\* the calls that only read the store
AuthenticateStore ==
    /\ Alive /\ Returned
    /\ \E u \in {"alice", "al"}, p \in {"password1", "short"} : Authenticate(u, p)

ValidateTokenStore ==
    /\ Alive /\ Returned
    /\ \E t \in {"tok12345", "tok"} : ValidateToken(t)

HasUsersStore == Alive /\ Returned /\ HasUsers

StoreNext ==
    \/ Restart \/ RegisterStore \/ Configure \/ Recover \/ RecoverDone
    \/ AuthenticateStore \/ ValidateTokenStore \/ HasUsersStore

\* the report of /api/status against collectors that can fail
RespondAny == \E h \in Handlers, c \in Collected : StatusRespondWith(h, c)

ReportNext ==
    \/ RegisterAlice \/ GetStatusAlice \/ ReadToken \/ CheckCache \/ QueryDone
    \/ RespondAny

\* the threads of the process on its mutexes
EnterSection == \E t \in Threads : \E section \in SectionsOf(t) : Enter(t, section)

AcquireLock == \E t \in Threads : Acquire(t)

ReleaseLock == \E t \in Threads : Release(t)

LockNext == EnterSection \/ AcquireLock \/ ReleaseLock

Next == AuthNext \/ ServerNext \/ HttpNext \/ Clock

AuthSpec == InitGui /\ [][AuthNext]_vars
ServerSpec == Init /\ [][ServerNext]_vars
HttpSpec == InitGui /\ [][HttpNext]_vars
CacheSpec == InitGui /\ [][CacheNext]_vars
StoreSpec == Init /\ [][StoreNext]_vars
LockSpec == Init /\ [][LockNext]_vars
ReportSpec == InitGui /\ [][ReportNext]_vars
Spec == Init /\ [][Next]_vars

\* every spawned listener thread keeps being scheduled
ListenerStep(g) ==
    \/ \E env_ok \in BOOLEAN : ListenerBind(g, env_ok)
    \/ ListenerShutdown(g) \/ ListenerBindFailed(g) \/ ListenerCleanup(g)

ServerFairSpec ==
    Init /\ [][ServerNext]_vars /\ \A g \in Generations : WF_vars(ListenerStep(g))

(***************************************************************************)
(* Claims                                                                  *)
(***************************************************************************)
\* vocabulary of the claims, stated on the stored data only
Owners(token) == {k \in DOMAIN users : users[k].access_token = token}
Registered(token) == token # None /\ Owners(Unwrap(token)) # {}
\* the preconditions of register, lengths counted in characters
RegisterPre(u, p, t) ==
    /\ Len(u) >= 3 /\ u \notin DOMAIN users
    /\ Len(p) >= 8
    /\ Len(t) >= 8 /\ Owners(t) = {}
FailedPreconditions(u, p, t) ==
    (IF u \in DOMAIN users THEN {ERR_USERNAME_EXISTS} ELSE {})
    \cup (IF Len(u) < 3 THEN {ERR_USERNAME_SHORT} ELSE {})
    \cup (IF Len(p) < 8 THEN {ERR_PASSWORD_SHORT} ELSE {})
    \cup (IF Len(t) < 8 THEN {ERR_TOKEN_SHORT} ELSE {})
    \cup (IF Owners(t) # {} THEN {ERR_TOKEN_IN_USE} ELSE {})

\* a step that is a register call (the call record changes with every call
\* that is not the exact repetition of the previous one in the same state)
IsRegisterStep == call' # call /\ call'.op = "register"

\* C1: no two stored users share a username or an access token, and a
\* register call that repeats a stored username or a stored access token is
\* rejected and leaves the user mapping unchanged.
C1_Unique ==
    /\ [](\A k1 \in DOMAIN users, k2 \in DOMAIN users :
             (users[k1].username = users[k2].username
              \/ users[k1].access_token = users[k2].access_token) => k1 = k2)
    /\ [][(IsRegisterStep
           /\ (call'.username \in DOMAIN users \/ Owners(call'.token) # {}))
          => (users' = users /\ call'.result \notin {OK, ERR_IO})]_vars

C1_Witness ==
    /\ DOMAIN users = {"alice"}
    /\ call.op = "register" /\ call.username = "éé"
    /\ call.token = users["alice"].access_token
    /\ call.result = ERR_TOKEN_IN_USE

\* C2: at most one listener is bound at any time.
C2_OneListener == Cardinality(Bound) <= 1

\* C3: whenever the state lock is free, shutdown_sender is present if and
\* only if is_running is true.
C3_HandleIffRunning == state_lock = None => ((shutdown_sender # None) <=> is_running)

\* C4: a register call that fails a precondition (username shorter than 3
\* characters or stored, password shorter than 8, access token shorter than 8
\* or owned) returns the error of a failed precondition and changes neither the user mapping, the notifier
\* configuration nor the file.
C4_RejectIsAtomic ==
    [][(IsRegisterStep
        /\ ~RegisterPre(call'.username, call'.password, call'.token))
       => /\ call'.result \in
                FailedPreconditions(call'.username, call'.password, call'.token)
          /\ users' = users /\ smtp_config' = smtp_config /\ disk' = disk]_vars

\* what a successful register leaves behind
RegisterStored ==
    /\ call'.username \in DOMAIN users'
    /\ users'[call'.username].username = call'.username
    /\ users'[call'.username].email = call'.email
    /\ users'[call'.username].access_token = call'.token
    /\ \E salt \in Salts :
          users'[call'.username].password_hash = hash(call'.password, salt)
    /\ \A k \in DOMAIN users : k \in DOMAIN users' /\ users'[k] = users[k]
    /\ disk'[config_path].kind = "json"
    /\ FromJsonUsers(disk'[config_path]) = users'
    /\ FromJsonSmtp(disk'[config_path]) = smtp_config'

\* C5: register succeeds exactly when the username has at least 3 characters
\* and is not stored, the password has at least 8 characters and the access
\* token has at least 8 characters and no owner; then the user is stored
\* under that username with the given email, access token and a hash of the
\* given password, and the file holds the store.
C5_SucceedsIffPre ==
    [][IsRegisterStep
       => /\ (call'.result = OK)
                <=> RegisterPre(call'.username, call'.password, call'.token)
          /\ call'.result = OK => RegisterStored]_vars

\* C6: authenticate(u, p) succeeds exactly when u is registered and p is the
\* password given at its registration, then returning u's access token; it
\* reports "User not found" for an unregistered u and "Invalid password" for
\* a registered u with another password.
C6_AuthCorrect ==
    \A u \in Usernames, p \in Passwords :
        LET r == authenticate(users, u, p)
        IN  /\ (r.result = OK) <=> (u \in DOMAIN users /\ supplied[u] = p)
            /\ r.result = OK => r.value = users[u].access_token
            /\ u \notin DOMAIN users => r.result = ERR_USER_NOT_FOUND
            /\ (u \in DOMAIN users /\ supplied[u] # p) => r.result = ERR_INVALID_PASSWORD

\* C7: validate_token(t) succeeds exactly when t is the access token of a
\* registered user, returns the username of the one user owning t, and
\* otherwise reports "Invalid access token".
C7_ValidateToken ==
    \A t \in Tokens :
        LET rs == validate_token(users, t)
        IN  IF Owners(t) # {}
            THEN /\ Cardinality(Owners(t)) = 1
                 /\ rs = {[result |-> OK, value |-> k] : k \in Owners(t)}
            ELSE rs = {[result |-> ERR_INVALID_TOKEN, value |-> ""]}

C7_Witness ==
    /\ call.op = "validate_token" /\ call.result = OK /\ call.value = "éé"
    /\ Cardinality(DOMAIN users) = 2

\* C8: GET /api/status answers 200 with the report exactly for a request
\* whose token is a registered access token when the request is checked; a
\* missing token and an unknown token both get 401 and no content.
C8_StatusGate ==
    /\ [][\A h \in Handlers, token \in RequestTokens :
             StatusRequest(h, token)
             => IF Registered(token)
                THEN handler'[h].pc = "status" /\ handler'[h].token = token /\ resp' = resp
                ELSE /\ resp' = Response("/api/status", token, 401, "none", <<>>)
                     /\ handler' = handler]_vars
    /\ [](\A h \in Handlers : handler[h].pc # "idle" => Registered(handler[h].token))
    /\ [](resp.route = "/api/status"
            => \/ resp.code = 200 /\ resp.page = "report" /\ Registered(resp.token)
               \/ resp.code = 401 /\ resp.page = "none")

C8_Witness ==
    /\ resp.route = "/api/status" /\ resp.code = 200 /\ resp.page = "report"
    /\ Cardinality(DOMAIN users) = 2

\* C9 as claimed: GET / answers 200 with the HTML shell for a valid token
\* and with the login page otherwise.
C9_ShellOrLogin ==
    [][\A h \in Handlers, token \in RequestTokens :
          IndexRequest(h, token)
          => IF Registered(token)
             THEN resp'.code = 200 /\ resp'.page = "shell"
             ELSE resp'.code = 200 /\ resp'.page = "login"]_vars

\* C9 amended: GET / answers 200 with the HTML shell for a valid token, 200
\* with the login page when the request carries no token, and 401 with no
\* page when it carries a token that is not valid.
C9_ShellLoginOr401 ==
    [][\A h \in Handlers, token \in RequestTokens :
          IndexRequest(h, token)
          => /\ resp'.route = "/" /\ resp'.token = token
             /\ IF Registered(token) THEN resp'.code = 200 /\ resp'.page = "shell"
                ELSE IF token = None THEN resp'.code = 200 /\ resp'.page = "login"
                ELSE resp'.code = 401 /\ resp'.page = "none"]_vars

C9_Witness ==
    /\ resp.route = "/" /\ resp.code = 401 /\ resp.token # None
    /\ users # NoUsers

\* C10: two telemetry queries never start within 60 seconds of each other,
\* at most one is in progress, and a call that finds the snapshot older than
\* 60 seconds, or never refreshed, starts exactly one query.
C10_OneQueryPerWindow ==
    /\ [][queries' # queries
            => /\ queries'.count = queries.count + 1
               /\ queries.last_start # None
                    => Unwrap(queries'.last_start) - Unwrap(queries.last_start) > 60]_vars
    /\ [](Cardinality({h \in Handlers : handler[h].pc = "hw_query"}) <= 1)
    /\ [][\A h \in Handlers :
             (handler[h].pc = "hw_check" /\ handler'[h].pc # "hw_check")
             => IF queries.count = 0 \/ now - hw.last_update > 60
                THEN queries'.count = queries.count + 1 /\ handler'[h].pc = "hw_query"
                ELSE queries' = queries /\ handler'[h].pc = "hw_read"]_vars

C10_Witness ==
    /\ queries.count = 2
    /\ \E h \in Handlers : handler[h].pc = "hw_query"
    /\ \E h \in Handlers : handler[h].pc = "hw_check"

\* the text a failed query leaves in a summary
ErrorTexts == {Some("Error querying hardware: " \o o.error) : o \in {x \in HwOutcomes : ~x.ok}}
CachedError == hw.power_info \in ErrorTexts

\* C11: a failed telemetry query stamps last_update with the current time and
\* its error text becomes both the power and the thermal summary; while that
\* stamp is at most 60 seconds old no call starts another query, and a call
\* answers with the cached error in both summaries.
C11_ErrorIsCached ==
    /\ [][\A h \in Handlers, o \in HwOutcomes :
             (HwQueryDone(h, o) /\ ~o.ok)
             => /\ hw'.last_update = now
                /\ hw'.power_info = Some("Error querying hardware: " \o o.error)
                /\ hw'.thermal_info = hw'.power_info]_vars
    /\ [](CachedError => hw.thermal_info = hw.power_info)
    /\ [][(CachedError /\ now' - hw.last_update <= 60) => queries' = queries]_vars
    /\ [][\A h \in Handlers :
             (StatusRespond(h) /\ CachedError)
             => /\ resp'.code = 200
                /\ resp'.body.power_info = hw.power_info
                /\ resp'.body.thermal_info = hw.power_info]_vars

C11_Witness ==
    /\ CachedError /\ queries.count = 1
    /\ now - hw.last_update >= 30 /\ now - hw.last_update <= 60
    /\ resp.page = "report" /\ resp.body.power_info \in ErrorTexts
    /\ \E h \in Handlers : handler[h].pc = "hw_read"

\* the runtime state a start or stop call may change
runtime == <<is_running, port, shutdown_sender, listener, chan>>

\* C12: a start call that finds the server running reports "already running"
\* and changes nothing: no listener thread and no channel is created, and
\* is_running, port and shutdown_sender keep their values.
C12_StartWhileRunning ==
    /\ [][(is_running
           /\ (CliStartCheck
               \/ \E input \in PortInputs : ParsePort(input) # None /\ GuiStartCheck(input)))
          => /\ ui'.pc = "idle" /\ ui'.msg = "already running"
             /\ runtime' = runtime]_vars
    /\ [][(is_running /\ ui.pc # "start_set") => ui'.pc # "start_set"]_vars
    /\ [][(Spawned' # Spawned \/ (shutdown_sender' # None /\ shutdown_sender' # shutdown_sender))
          => ~is_running]_vars

C12_Witness ==
    /\ ui.pc = "idle" /\ ui.msg = "already running"
    /\ is_running /\ shutdown_sender = Some(1) /\ chan[1] = "open"
    /\ Bound = {1} /\ Spawned = {1}

\* C13: a stop call that finds the server not running reports "not running"
\* and leaves is_running, port and shutdown_sender unchanged.
C13_StopWhileStopped ==
    [][(~is_running /\ (CliStopTake \/ GuiStopTake))
       => /\ is_running' = is_running /\ port' = port
          /\ shutdown_sender' = shutdown_sender
          /\ (frontend = "cli" => ui'.msg = "not running")
          /\ (frontend = "gui" => ui'.arg = None)]_vars

\* the frontend thread leaves stop_server
StopReturns ==
    /\ ui.pc \in {"stop_send", "stop_mark"} /\ ui'.pc = "idle"

\* C14: a stop call on a running server takes the sender out of the state and
\* sends on it, is_running is false and no sender is stored when the call
\* returns, and the listener thread of that sender eventually is no longer
\* bound, also when the signal was sent before the thread had bound.
C14_StopReleases ==
    /\ [][\A g \in Generations :
             (is_running /\ shutdown_sender = Some(g) /\ (CliStopTake \/ GuiStopTake))
             => (shutdown_sender' = None /\ ui'.pc = "stop_send" /\ ui'.arg = Some(g))]_vars
    /\ [][\A g \in Generations :
             (ui.pc = "stop_send" /\ ui.arg = Some(g) /\ ui'.pc # "stop_send")
             => chan'[g] = "sent"]_vars
    /\ [][StopReturns => (~is_running' /\ shutdown_sender' = None)]_vars
    /\ \A g \in Generations :
          (chan[g] = "sent") ~> (listener[g].pc \in {"cleanup", "done"})

C14_Witness ==
    /\ chan[1] = "sent" /\ listener[1].pc = "done"
    /\ ui.pc = "idle" /\ ~is_running /\ shutdown_sender = None
    /\ Spawned = {1}

\* C15: start reports success when it spawns the listener thread, before any
\* bind; after a failed bind the state eventually has is_running false and
\* no sender, and is_running only becomes true again by a start.
C15_BindFailureReverts ==
    /\ [][Spawned' # Spawned
            => /\ ui'.pc = "idle" /\ ui'.msg = "started"
               /\ \A g \in Spawned' \ Spawned : listener'[g].pc = "spawned"]_vars
    /\ \A g \in Generations :
          (listener[g].pc = "bind_failed") ~> (~is_running /\ shutdown_sender = None)
    /\ [][(~is_running /\ is_running') => Spawned' # Spawned]_vars

C15_Witness ==
    /\ Spawned = {1} /\ listener[1].pc = "done" /\ chan[1] = "dropped"
    /\ ~is_running /\ shutdown_sender = None
    /\ ui.pc = "idle" /\ ui.msg = "started"

\* str::contains('@')
HasAt(s) == \E i \in 1..Len(s) : SubSeq(s, i, i) = "@"

\* C16: a register call whose email contains no "@" is rejected with a
\* validation error and changes neither the store nor the file.
C16_EmailNeedsAt ==
    [][(IsRegisterStep /\ ~HasAt(call'.email))
       => /\ call'.result \notin {OK, ERR_IO}
          /\ users' = users /\ smtp_config' = smtp_config /\ disk' = disk]_vars

\* the backing file holds exactly the in-memory store
Persisted ==
    /\ disk[config_path].kind = "json"
    /\ FromJsonUsers(disk[config_path]) = users
    /\ FromJsonSmtp(disk[config_path]) = smtp_config

\* C17: after every register or configure_smtp call that returns success,
\* and after every startup that yields a store, the content of the backing
\* file is the in-memory store: all users and the notifier configuration.
C17_WriteThrough ==
    (call.op \in {"register", "configure_smtp", "new"} /\ call.result = OK) => Persisted

\* a notifier configuration stored and written next to two users
C17_Witness ==
    /\ call.op = "configure_smtp" /\ call.result = OK
    /\ Cardinality(DOMAIN users) = 2
    /\ smtp_config # None
    /\ Persisted

\* save_config of the store, with the HashMap yielding its entries in order o
Saved(o) == SaveConfig(users, smtp_config, "ok", o)

\* the entries of a file, without their order
EntrySet(content) == {content.entries[i] : i \in DOMAIN content.entries}

\* C18 as stated: a store saved to its file and loaded from it by a new
\* manager has the same users and notifier configuration, and saving the
\* loaded store produces the same file.
C18_RoundTripSameFile ==
    \A o1 \in Orders(users) : \A r \in New(Saved(o1), config_path) :
        /\ r.ok /\ r.users = users /\ r.smtp = smtp_config
        /\ \A o2 \in Orders(r.users) :
              WriteFile(r.disk, r.path, ToJson(r.users, r.smtp, o2), "ok") = Saved(o1)

\* C18 (amended): a store saved to its file and loaded from it by a new
\* manager has the same users (username, email, password hash, access token,
\* created_at) and notifier configuration, and saving the loaded store
\* produces a file with the same user entries and notifier configuration,
\* the entries in any order.
C18_RoundTrip ==
    \A o1 \in Orders(users) : \A r \in New(Saved(o1), config_path) :
        /\ r.ok /\ r.users = users /\ r.smtp = smtp_config
        /\ \A o2 \in Orders(r.users) :
              LET again == WriteFile(r.disk, r.path, ToJson(r.users, r.smtp, o2), "ok")[r.path]
                  first == Saved(o1)[config_path]
              IN  /\ again.kind = "json"
                  /\ Len(again.entries) = Len(first.entries)
                  /\ EntrySet(again) = EntrySet(first)
                  /\ again.smtp_config = first.smtp_config

\* a store of two users and a notifier configuration that a new manager has
\* loaded from the file a previous run saved
C18_Witness ==
    /\ call.op = "new" /\ call.result = OK
    /\ Cardinality(DOMAIN users) = 2
    /\ smtp_config # None

FailedWrites == WriteOutcomes \ {"ok"}

\* the write of the step failed: the file is as it was, or truncated
FileNotWritten == disk'[config_path] \in {disk[config_path], Corrupt}

\* C19: a register call that passes validation and whose file write fails
\* returns an error while the new user is in the in-memory store and the
\* file does not hold the store; a configure_smtp call whose file write fails
\* returns an error while the new configuration is the in-memory one.
C19_FailedWriteKeepsMutation ==
    [][/\ (IsRegisterStep /\ call'.io \in FailedWrites)
          => /\ call'.result = ERR_IO
             /\ call'.username \notin DOMAIN users
             /\ call'.username \in DOMAIN users'
             /\ users'[call'.username].email = call'.email
             /\ users'[call'.username].access_token = call'.token
             /\ FileNotWritten
             /\ ~Persisted'
       /\ \A c \in SmtpConfigs, outcome \in FailedWrites :
             ConfigureSmtp(c, outcome)
                => /\ call'.result = ERR_IO
                   /\ smtp_config' = Some(c)
                   /\ users' = users
                   /\ FileNotWritten]_vars

\* a configure_smtp call has just failed on its write, after a register call
\* that had failed on its write: memory holds a user and a configuration
\* that the file, still readable, holds neither of
C19_Witness ==
    /\ call.op = "configure_smtp" /\ call.result = ERR_IO
    /\ smtp_config # None
    /\ disk[config_path].kind = "json"
    /\ FromJsonSmtp(disk[config_path]) = None
    /\ \E u \in DOMAIN users : u \notin DOMAIN FromJsonUsers(disk[config_path])

\* a call of recover_credentials begins
IsRecoverStep == call' # call /\ call'.op = "recover" /\ call.result # PENDING

\* C20: recover_credentials returns the no-such-email error when no user has
\* exactly that email, with or without a notifier configuration; the
\* notifier-unconfigured error when a user matches and no configuration is
\* set; otherwise it emits one message, holding a matching user's username
\* and access token and not the password or its hash, and returns success,
\* only after the message was emitted.
C20_Recover ==
    [][/\ IsRecoverStep =>
             IF Matches(users, call'.email) = {}
             THEN call'.result = ERR_NO_EMAIL /\ call'.sent = << >>
             ELSE IF smtp_config = None
             THEN call'.result = ERR_NO_SMTP /\ call'.sent = << >>
             ELSE /\ call'.result = PENDING
                  /\ Len(call'.sent) = 1
                  /\ DOMAIN call'.sent[1] = {"to", "username", "access_token"}
                  /\ \E u \in Matches(users, call'.email) :
                        /\ call'.sent[1].username = u
                        /\ call'.sent[1].access_token = users[u].access_token
                        /\ \A f \in DOMAIN call'.sent[1] : call'.sent[1][f] # supplied[u]
       /\ (call' # call /\ call'.op = "recover" /\ call'.result = OK)
             => /\ call.op = "recover" /\ call.result = PENDING
                /\ Len(call.sent) = 1 /\ call'.sent = call.sent
       /\ (call' # call /\ call.op = "recover" /\ call.result = PENDING)
             => \/ call'.op = "recover" /\ call'.result = OK
                \/ call'.op = "new"]_vars

\* a recovery has returned success for an email that two users share
C20_Witness ==
    /\ call.op = "recover" /\ call.result = OK
    /\ Len(call.sent) = 1
    /\ Cardinality(Matches(users, call.email)) = 2
    /\ call.sent[1].access_token = users[call.sent[1].username].access_token

\* C21: configure_smtp makes the given configuration the store's notifier
\* configuration, whatever it was, leaves the users unchanged and, when its
\* write succeeds, has it in the file; from then on, in the same run, no
\* recover call fails for a missing notifier configuration.
C21_ConfigureReplaces ==
    [][/\ \A c \in SmtpConfigs, outcome \in WriteOutcomes :
             ConfigureSmtp(c, outcome)
                => /\ smtp_config' = Some(c)
                   /\ users' = users
                   /\ outcome = "ok"
                        => /\ call'.result = OK
                           /\ disk'[config_path].kind = "json"
                           /\ FromJsonSmtp(disk'[config_path]) = Some(c)
                           /\ FromJsonUsers(disk'[config_path]) = users
       /\ (smtp_config # None /\ call'.op # "new") => smtp_config' # None
       /\ (IsRecoverStep /\ smtp_config # None) => call'.result # ERR_NO_SMTP]_vars

\* a recover call for a registered email has emitted its message, the
\* notifier configuration being the one in the file
C21_Witness ==
    /\ call.op = "recover" /\ call.result = PENDING
    /\ Matches(users, call.email) # {}
    /\ smtp_config # None
    /\ disk[config_path].kind = "json"
    /\ FromJsonSmtp(disk[config_path]) = smtp_config

\* C22: no thread holds the ServerState lock while a hardware query is in
\* progress.
C22_LockNotHeldAcrossRefresh ==
    \A h \in Handlers : handler[h].pc = "hw_query" => state_lock = None

\* C23: while one request's hardware query is in progress, a token
\* validation for another request and an authenticate call can complete.
C23_AuthNotBlockedByRefresh ==
    \A h, h2 \in Handlers :
        (handler[h].pc = "hw_query" /\ handler[h2].pc = "idle")
            => /\ ENABLED (\E t \in RequestTokens : StatusRequest(h2, t))
               /\ ENABLED AuthenticateCall

Held(t) == {m \in Mutexes : locks.owner[m] = Some(t)}
Wants(t, m) == locks.todo[t] # << >> /\ Head(locks.todo[t]) = Lock(m)
Blocked(t) == \E m \in Mutexes : Wants(t, m) /\ locks.owner[m] # None

\* every thread of S waits for a mutex that a thread of S holds
WaitCycle(S) ==
    \A t \in S : \E m \in Mutexes :
        /\ Wants(t, m) /\ locks.owner[m] # None /\ Unwrap(locks.owner[m]) \in S

\* C24: no set of threads (frontend, listeners, request handlers) is ever
\* waiting for mutexes held inside the set; a thread holding the auth or hw
\* mutex holds the ServerState mutex, taken first; a thread asking for the
\* ServerState mutex holds no mutex; no thread asks for a mutex it holds.
C24_NoDeadlock ==
    /\ \A S \in SUBSET Threads : S # {} => ~WaitCycle(S)
    /\ \A t \in Threads :
          /\ Held(t) \cap {"auth", "hw"} # {} => "state" \in Held(t)
          /\ Wants(t, "state") => Held(t) = {}
          /\ \A m \in Mutexes : Wants(t, m) => m \notin Held(t)

\* a handler between the staleness test and the refresh, holding the
\* ServerState mutex and asking for the hw mutex again, with the frontend
\* and another handler waiting for the ServerState mutex
C24_Witness ==
    \E t, b \in Threads :
        /\ t.kind = "handler" /\ b.kind = "handler" /\ b # t
        /\ Held(t) = {"state"} /\ Wants(t, "hw") /\ Len(locks.todo[t]) = 3
        /\ Blocked(b)
        /\ Blocked([kind |-> "frontend", id |-> 0])

\* C25: the read of (is_running, port) by the frontend never waits for a
\* request that is refreshing the hardware cache.
C25_StatusWaitFree ==
    \A h \in Handlers :
        (handler[h].pc = "hw_query" /\ ui.pc = "idle") => ENABLED GuiFrame

\* C26: after a refresh, successful or failed, every field of the snapshot
\* is what that refresh produced; none keeps the value of an earlier refresh.
C26_WholesaleReplace ==
    [][\A h \in Handlers, outcome \in HwOutcomes :
          HwQueryDone(h, outcome)
             => /\ hw'.last_update = now
                /\ outcome.ok
                     => /\ hw'.power_info = Some(outcome.power)
                        /\ hw'.thermal_info = Some(outcome.thermal)
                        /\ hw'.optimization_suggestions = outcome.suggestions
                /\ ~outcome.ok
                     => /\ hw'.power_info = Some("Error querying hardware: " \o outcome.error)
                        /\ hw'.thermal_info = Some("Error querying hardware: " \o outcome.error)
                        /\ hw'.optimization_suggestions = << >>]_vars

\* C27: a get_hardware_status call whose staleness test runs 60 seconds or
\* less after the last refresh starts no query and leaves the snapshot
\* (power, thermal, suggestions, last_update) as it is, and the report it
\* returns carries the cached snapshot.
C27_FreshCallLeavesCache ==
    [][\A h \in Handlers :
          /\ (HwCheck(h) /\ now - hw.last_update <= TTL_SECS)
                => /\ hw' = hw
                   /\ queries' = queries
                   /\ state_lock' = state_lock
                   /\ handler'[h].pc = "hw_read"
          /\ StatusRespond(h)
                => /\ hw' = hw
                   /\ resp'.body.power_info = hw.power_info
                   /\ resp'.body.thermal_info = hw.thermal_info
                   /\ resp'.body.suggestions = hw.optimization_suggestions]_vars

\* 60 seconds after the only refresh so far, one request has been answered
\* with the snapshot and another is about to read it: one of the two passed
\* the staleness test without a query
C27_Witness ==
    \E h \in Handlers :
        /\ handler[h].pc = "hw_read"
        /\ \A o \in Handlers \ {h} : handler[o].pc = "idle"
        /\ now - hw.last_update = TTL_SECS
        /\ queries.count = 1
        /\ hw.power_info # None
        /\ resp.code = 200 /\ resp.page = "report"
        /\ resp.body.power_info = hw.power_info

\* a step of StatusRequest or IndexRequest: an idle handler's request is
\* accepted for the report, or answered at once
IsTokenCheck ==
    \E h \in Handlers :
        /\ handler[h].pc = "idle"
        /\ \/ handler'[h].pc = "status"
           \/ handler' = handler /\ resp' # resp

\* C28: the token check of a request to /api/status or to / changes nothing:
\* accepted or rejected, the users, the notifier configuration, the file and
\* is_running / port / shutdown_sender are after the check what they were
\* before it.
C28_TokenCheckReadOnly ==
    [][IsTokenCheck
             => /\ users' = users /\ smtp_config' = smtp_config
                /\ config_path' = config_path /\ disk' = disk
                /\ is_running' = is_running /\ port' = port
                /\ shutdown_sender' = shutdown_sender]_vars

\* with two users registered, one request's token has been accepted and
\* another request's token has just been rejected
C28_Witness ==
    /\ Cardinality(DOMAIN users) = 2
    /\ \E h \in Handlers : handler[h].pc = "status"
    /\ resp.code = 401 /\ resp.token # None

SectionNames == <<"system", "hardware", "network_info", "network_traffic",
                  "components", "disks", "access">>

IndexOf(k) == CHOOSE i \in DOMAIN SectionNames : SectionNames[i] = k

\* C29: whatever the collectors and the hardware query return, the report is
\* produced with every section, in the same order; a collector's section is
\* what that collector's outcome alone makes it, one error line when it
\* failed, and the other sections are those of a report without failures.
C29_ReportDegradesBySection ==
    [][\A h \in Handlers :
          (handler[h].pc = "hw_read" /\ handler'[h].pc = "idle") =>
             LET r == resp'.body.report
                 c == resp'.body.collected
                 base == status(hw, CollectedOk, handler[h].url_token)
             IN  /\ resp'.code = 200
                 /\ Len(r) = Len(SectionNames)
                 /\ \A i \in DOMAIN r : r[i].name = SectionNames[i]
                 /\ r[1] = base[1] /\ r[2] = HardwareSection(hw) /\ r[7] = base[7]
                 /\ Len(r[2].lines) >= 4
                 /\ \A k \in Collectors :
                       /\ c[k] = CollectedOk[k] => r[IndexOf(k)] = base[IndexOf(k)]
                       /\ c[k].ok => /\ r[IndexOf(k)].lines[1] = base[IndexOf(k)].lines[1]
                                     /\ Len(r[IndexOf(k)].lines) >= 1 + Len(c[k].items)
                       /\ ~c[k].ok => /\ Len(r[IndexOf(k)].lines) = 1
                                      /\ SubSeq(r[IndexOf(k)].lines[1], 1, 5) = "Error"]_vars

\* a report sent after a failed hardware query, with the network statistics
\* and the disks failed and the two collectors between them in order
C29_Witness ==
    /\ resp.code = 200 /\ resp.page = "report"
    /\ Len(resp.body.report) = 7
    /\ resp.body.report[2].lines[2] = "Error querying hardware: E"
    /\ resp.body.report[3].lines = <<"Error getting network stats: E">>
    /\ resp.body.report[4].lines = <<"Current Network Traffic:", "item">>
    /\ resp.body.report[5].lines = <<"Components:", "No Components Found">>
    /\ resp.body.report[6].lines = <<"Error checking disks: E">>

\* C30: a startup that yields a store on a path whose file was absent starts
\* with the empty store and has written it to that path; on a path whose
\* file was present and parseable it starts with the file's users and
\* notifier configuration and leaves the file as it was.
C30_Startup ==
    [][(call'.op = "new" /\ call'.result = OK)
          => /\ disk[config_path'] # Corrupt
             /\ disk[config_path'] = Absent
                  => /\ users' = NoUsers /\ smtp_config' = None
                     /\ disk'[config_path'] = ToJson(NoUsers, None, << >>)
             /\ disk[config_path'].kind = "json"
                  => /\ users' = FromJsonUsers(disk[config_path'])
                     /\ smtp_config' = FromJsonSmtp(disk[config_path'])
                     /\ disk'[config_path'] = disk[config_path']]_vars

\* a startup has found the first file unreadable and the second absent, and
\* has created the second with the empty store
C30_Witness ==
    /\ call.op = "new" /\ call.result = OK
    /\ config_path = FallbackPath
    /\ disk[PrimaryPath] = Corrupt
    /\ users = NoUsers /\ smtp_config = None
    /\ disk[FallbackPath] = ToJson(NoUsers, None, << >>)

\* C31: the exit cleanup of a listener changes neither is_running nor the
\* shutdown sender stored by a later start, and does not close the later
\* listener's channel.
C31_GenerationsIsolated ==
    [][\A g \in Generations :
          (/\ listener[g].pc \in {"cleanup", "bind_failed"}
           /\ listener'[g].pc # listener[g].pc
           /\ shutdown_sender # None /\ Unwrap(shutdown_sender) # g)
             => /\ is_running' = is_running
                /\ shutdown_sender' = shutdown_sender
                /\ chan' = chan]_vars

\* C32: a bind that the environment allows succeeds: a listener of this
\* process that was stopped and has not yet terminated never makes the bind
\* of a later listener on its port fail.
C32_RestartBinds ==
    [][\A g \in Generations :
          ListenerBind(g, TRUE) => listener'[g].pc = "serving"]_vars

\* C33: the report answering a request authorised by token t carries no
\* other user's access token: the token in its access URL is t.
C33_ReportOwnToken ==
    (resp.page = "report" /\ resp.code = 200)
        => resp.body.url_token = Unwrap(resp.token)

\* C34: no operation of a running process removes or alters a stored user:
\* across every step that is not a start of the process each stored user keeps
\* its email, access token and password hash, so authenticate with the
\* password given at registration and validate_token with its access token
\* still succeed and has_users is still true.
C34_UsersImmutable ==
    [][call'.op # "new"
       => \A u \in DOMAIN users :
             /\ u \in DOMAIN users' /\ users'[u] = users[u]
             /\ has_users(users')
             /\ u \in DOMAIN supplied'
                   => authenticate(users', u, supplied'[u])
                         = [result |-> OK, value |-> users[u].access_token]
             /\ \A r \in validate_token(users', users[u].access_token) :
                   r.result = OK]_vars

\* a second user was registered and a notifier configured next to a stored one
C34_Witness ==
    /\ DOMAIN users = {"alice", "éé"}
    /\ DOMAIN supplied = {"alice", "éé"}
    /\ smtp_config # None
    /\ call.op = "authenticate" /\ call.result = OK

\* C35: authenticate, validate_token, recover and has_users are read-only:
\* whatever the input and whatever the call returns, a step of one of these
\* calls leaves the user mapping, the notifier configuration and every file
\* unchanged.
ReadOnlyOps == {"authenticate", "validate_token", "recover", "has_users"}

C35_ReadOnlyCalls ==
    [][call'.op \in ReadOnlyOps
       => /\ users' = users
          /\ smtp_config' = smtp_config
          /\ disk' = disk]_vars

\* has_users has answered true on a store with users, a notifier
\* configuration and its file
C35_Witness ==
    /\ call.op = "has_users" /\ call.value = "true"
    /\ DOMAIN users = {"alice", "éé"}
    /\ smtp_config # None
    /\ disk[config_path].kind = "json"

\* C36: when crusty_auth.json exists but cannot be read or parsed, startup
\* ends in a persistence error: no started process holds a credential store,
\* so none holds an empty one whose has_users() = false offers first-run
\* setup.
C36_CorruptFileStopsStartup ==
    (call.op = "new" /\ disk[PrimaryPath] = Corrupt) => call.result = PANIC

\* C37: while the state reports running, its port is the port the most
\* recently started listener was asked to bind; no step changes port while
\* running is true; change_port is rejected while running and otherwise
\* stores the input exactly when it is a port in 1024..65535, leaving the
\* port unchanged for any other input.
LatestListener == listener[Cardinality(Spawned)]

C37_PortOfRunningServer ==
    /\ [](is_running => Spawned # {} /\ port = LatestListener.port)
    /\ [][/\ is_running => port' = port
          /\ \A input \in PortInputs :
                CliChangePort(input)
                   => port' = IF ~is_running /\ input \in MIN_CLI_PORT..U16_MAX
                              THEN input ELSE port]_vars

\* a stopped CLI server took a new port, was started on it, and a later
\* change_port was rejected while it runs
C37_Witness ==
    /\ frontend = "cli" /\ is_running
    /\ port = 8080 /\ port # DEFAULT_PORT
    /\ LatestListener.port = 8080
    /\ ui.msg = "stop the server first"
====
